---- MODULE Spec2Model ----
(***************************************************************************)
(* rax/_src/lambdaweights.py: labeldiff_lambdaweight.                      *)
(*                                                                         *)
(* Arrays are records [shape, data]: shape is the tuple of dimensions and  *)
(* data maps every index tuple (0-based, as in the source) to an element.  *)
(* Elements of numeric arrays are IEEE floating-point values of the format *)
(* jnp.float16 (binary16): a finite value, NaN, or a signed infinity.  The *)
(* finite values modelled are the integer-valued ones, which TLC's         *)
(* integers hold exactly; the result of an operation is rounded to the     *)
(* nearest element (ties to even) and overflows to an infinity as the      *)
(* format does.  float32 and float64 differ in Precision and MaxFinite     *)
(* only.  Two elements are equal when they are the same value; NaN is the  *)
(* same value as NaN.                                                      *)
(***************************************************************************)
EXTENDS Integers, Sequences, FiniteSets, TLC

VARIABLES labels, scores, where, weights, plain, result, single

vars == <<labels, scores, where, weights, plain, result, single>>

---------------------------------------------------------------------------
(* Bounds of the explored inputs. *)

\* largest list_size of labels
MaxListSize == 3
\* largest number of leading batch dimensions
MaxBatchDims == 1
\* largest size of one batch dimension
MaxBatch == 2
\* largest number of elements of labels
MaxElems == 4
\* largest finite label
MaxLabel == 1

---------------------------------------------------------------------------
(* Floating-point elements. *)

Fin(n) == [kind |-> "fin", v |-> n]
NaN == [kind |-> "nan", v |-> 0]
PosInf == [kind |-> "inf", v |-> 1]
NegInf == [kind |-> "inf", v |-> -1]

\* significand bits of the element format (binary16: 11)
Precision == 11
\* largest finite element of the format (binary16: 65504)
MaxFinite == 65504

RECURSIVE Pow2(_)
Pow2(k) == IF k = 0 THEN 1 ELSE 2 * Pow2(k - 1)

\* the least magnitude from which not every integer is an element
TwoP == Pow2(Precision)

\* the spacing of the elements around the magnitude a: the least power of two
\* u with a < 2^Precision * u
RECURSIVE UlpFrom(_, _)
UlpFrom(a, u) == IF a < TwoP * u THEN u ELSE UlpFrom(a, 2 * u)

\* the element an exact integer result r is delivered as: round to nearest,
\* ties to even, and an infinity when the rounded magnitude exceeds MaxFinite
RoundToFloat(r) ==
    LET a == IF r < 0 THEN -r ELSE r
        sign == IF r < 0 THEN -1 ELSE 1
        u == UlpFrom(a, 1)
        q == a \div u
        rem == a % u
        up == 2 * rem > u \/ (2 * rem = u /\ q % 2 = 1)
        m == (IF up THEN q + 1 ELSE q) * u
    IN IF m > MaxFinite THEN [kind |-> "inf", v |-> sign] ELSE Fin(sign * m)

\* operator.sub on two array elements (IEEE subtraction)
operator_sub(x, y) ==
    IF x.kind = "nan" \/ y.kind = "nan" THEN NaN
    ELSE IF x.kind = "inf"
         THEN IF y.kind = "inf" /\ y.v = x.v THEN NaN ELSE x
    ELSE IF y.kind = "inf" THEN [kind |-> "inf", v |-> -(y.v)]
    ELSE RoundToFloat(x.v - y.v)

\* operator.add, used only by a faulty variant below
operator_add(x, y) ==
    IF x.kind = "nan" \/ y.kind = "nan" THEN NaN
    ELSE IF x.kind = "inf"
         THEN IF y.kind = "inf" /\ y.v # x.v THEN NaN ELSE x
    ELSE IF y.kind = "inf" THEN y
    ELSE RoundToFloat(x.v + y.v)

\* absolute value of one element
fabs(x) ==
    IF x.kind = "nan" THEN NaN
    ELSE IF x.kind = "inf" THEN PosInf
    ELSE Fin(IF x.v < 0 THEN -(x.v) ELSE x.v)

---------------------------------------------------------------------------
(* Arrays. *)

RECURSIVE Size(_)
Size(shape) == IF shape = <<>> THEN 1 ELSE Head(shape) * Size(Tail(shape))

\* every index tuple of an array of the given shape
RECURSIVE Indices(_)
Indices(shape) ==
    IF shape = <<>> THEN { <<>> }
    ELSE { <<i>> \o rest : i \in 0..(Head(shape) - 1), rest \in Indices(Tail(shape)) }

Full(shape, x) == [shape |-> shape, data |-> [idx \in Indices(shape) |-> x]]

NoArray == [shape |-> <<>>, data |-> <<>>]

ListSize(a) == a.shape[Len(a.shape)]

BatchShape(a) == SubSeq(a.shape, 1, Len(a.shape) - 1)

\* an optional argument: None, or an array
None == [given |-> FALSE, shape |-> <<>>, data |-> <<>>]
Some(a) == [given |-> TRUE, shape |-> a.shape, data |-> a.data]

\* what a call produced
Ok(a) == [status |-> "ok", value |-> a]
ShapeError == [status |-> "error", value |-> NoArray]
NoOutcome == [status |-> "none", value |-> NoArray]

\* numpy broadcasting rule on two shapes: trailing dimensions are aligned and
\* each aligned pair must be equal or contain a 1
BroadcastCompatible(s, t) ==
    \A m \in 1..(IF Len(s) < Len(t) THEN Len(s) ELSE Len(t)) :
        LET a == s[Len(s) + 1 - m]
            b == t[Len(t) + 1 - m]
        IN a = b \/ a = 1 \/ b = 1

---------------------------------------------------------------------------
(* utils.compute_pairs and jnp.abs. *)

\* the binary operators of module operator that are passed around
apply_op(op, x, y) == IF op = "sub" THEN operator_sub(x, y) ELSE operator_add(x, y)

\* compute_pairs(a, op)[..., i, j] = op(a[..., i], a[..., j])
compute_pairs(a, op) ==
    LET k == Len(a.shape)
        sh == Append(a.shape, a.shape[k])
    IN [shape |-> sh,
        data |-> [idx \in Indices(sh) |->
                    apply_op(op, a.data[SubSeq(idx, 1, k)],
                                 a.data[Append(SubSeq(idx, 1, k - 1), idx[k + 1])])]]

jnp_abs(a) == [shape |-> a.shape, data |-> [idx \in DOMAIN a.data |-> fabs(a.data[idx])]]

---------------------------------------------------------------------------
(* labeldiff_lambdaweight. *)

(* Faulty variants, each one plausible slip away from the source. *)

\* the label differences without jnp.abs
labeldiff_signed(s, y, w, wt) ==
    Ok(compute_pairs(y, "sub"))

\* operator.add in place of operator.sub
labeldiff_sum(s, y, w, wt) ==
    Ok(jnp_abs(compute_pairs(y, "add")))

\* jnp.maximum(., 0) in place of jnp.abs
labeldiff_relu(s, y, w, wt) ==
    LET d == compute_pairs(y, "sub")
        pos(x) == IF x.kind = "fin" /\ x.v < 0 THEN Fin(0)
                  ELSE IF x.kind = "inf" /\ x.v < 0 THEN Fin(0) ELSE x
    IN Ok([shape |-> d.shape, data |-> [idx \in DOMAIN d.data |-> pos(d.data[idx])]])

\* labels - labels elementwise, compute_pairs forgotten
labeldiff_nopairs(s, y, w, wt) ==
    Ok(jnp_abs([shape |-> y.shape,
                data |-> [idx \in DOMAIN y.data |-> operator_sub(y.data[idx], y.data[idx])]]))

\* every list paired against the first list of the batch
labeldiff_firstlist(s, y, w, wt) ==
    LET k == Len(y.shape)
        sh == Append(y.shape, y.shape[k])
        zero == [m \in 1..(k - 1) |-> 0]
    IN Ok(jnp_abs([shape |-> sh,
                   data |-> [idx \in Indices(sh) |->
                               operator_sub(y.data[SubSeq(idx, 1, k)],
                                            y.data[Append(zero, idx[k + 1])])]]))

\* where honoured: pairs with an invalid item get weight 0
labeldiff_masked(s, y, w, wt) ==
    LET k == Len(y.shape)
        r == jnp_abs(compute_pairs(y, "sub"))
        valid(idx) == w.data[SubSeq(idx, 1, k)]
                      /\ w.data[Append(SubSeq(idx, 1, k - 1), idx[k + 1])]
    IN IF w.given /\ w.shape = y.shape
       THEN Ok([shape |-> r.shape,
                data |-> [idx \in DOMAIN r.data |->
                            IF valid(idx) THEN r.data[idx] ELSE Fin(0)]])
       ELSE Ok(r)

\* scores broadcast against labels before being dropped
labeldiff_checked_scores(s, y, w, wt) ==
    IF BroadcastCompatible(s.shape, y.shape)
    THEN Ok(jnp_abs(compute_pairs(y, "sub")))
    ELSE ShapeError

\* where and weights broadcast against labels before being dropped
labeldiff_checked_optional(s, y, w, wt) ==
    IF /\ w.given => BroadcastCompatible(w.shape, y.shape)
       /\ wt.given => BroadcastCompatible(wt.shape, y.shape)
    THEN Ok(jnp_abs(compute_pairs(y, "sub")))
    ELSE ShapeError

\* del scores, where, weights; return jnp.abs(utils.compute_pairs(labels, operator.sub))
labeldiff_lambdaweight(s, y, w, wt) ==
    Ok(jnp_abs(compute_pairs(y, "sub")))

---------------------------------------------------------------------------
(* Inputs. *)

\* label values of the usual kind: small finite ones, NaN and an infinity
FloatLabels == { Fin(n) : n \in (-1)..MaxLabel } \cup { NaN, PosInf }

\* label values at the edge of the format, where differences round or overflow
ExtremeLabels == { Fin(-MaxFinite), Fin(0), Fin(1), Fin(MaxFinite) }

RECURSIVE Tuples(_, _)
Tuples(k, S) ==
    IF k = 0 THEN { <<>> } ELSE { Append(t, x) : t \in Tuples(k - 1, S), x \in S }

BatchShapes == UNION { Tuples(k, 1..MaxBatch) : k \in 0..MaxBatchDims }

LabelShapes ==
    { sh \in { Append(b, n) : b \in BatchShapes, n \in 1..MaxListSize } :
        Size(sh) <= MaxElems }

LabelArrays ==
    UNION { { [shape |-> sh, data |-> d] :
                d \in [Indices(sh) -> FloatLabels] \cup [Indices(sh) -> ExtremeLabels] } :
            sh \in LabelShapes }

\* the shape of y with its list_size grown by one
LongerShape(y) == Append(BatchShape(y), ListSize(y) + 1)

DefaultScores(y) == Full(y.shape, Fin(0))

ScoresChoices(y) ==
    { DefaultScores(y), Full(y.shape, Fin(1)), Full(LongerShape(y), Fin(1)) }

\* one mask per subset of item positions, repeated over the batch
WhereChoices(y) ==
    { Some([shape |-> y.shape,
            data |-> [idx \in Indices(y.shape) |-> idx[Len(idx)] \in valid]]) :
        valid \in SUBSET (0..(ListSize(y) - 1)) }
    \cup { Some(Full(LongerShape(y), TRUE)) }

WeightsChoices(y) ==
    { Some(Full(y.shape, Fin(1))), Some(Full(LongerShape(y), Fin(2))) }

ArgChoices(y) ==
    { <<s, None, None>> : s \in ScoresChoices(y) }
    \cup { <<DefaultScores(y), w, None>> : w \in WhereChoices(y) }
    \cup { <<DefaultScores(y), None, wt>> : wt \in WeightsChoices(y) }
    \cup { <<Full(LongerShape(y), Fin(1)), Some(Full(LongerShape(y), TRUE)),
             Some(Full(LongerShape(y), Fin(2)))>> }

\* the list at batch index b of an array of shape [..., list_size]
SliceList(a, b) ==
    LET n == ListSize(a)
    IN [shape |-> <<n>>, data |-> [idx \in Indices(<<n>>) |-> a.data[b \o idx]]]

\* the matrix at batch index b of an array of shape [..., n, n]
SliceMatrix(a, b) ==
    LET k == Len(a.shape)
        sh == SubSeq(a.shape, k - 1, k)
    IN [shape |-> sh, data |-> [idx \in Indices(sh) |-> a.data[b \o idx]]]

---------------------------------------------------------------------------
(* The calls. *)

Init ==
    /\ labels \in LabelArrays
    /\ scores = DefaultScores(labels)
    /\ where = None
    /\ weights = None
    /\ plain = NoOutcome
    /\ result = NoOutcome
    /\ single = [b |-> <<>>, out |-> NoOutcome]

\* labeldiff_lambdaweight(scores, labels) with where and weights left out
CallPlain ==
    /\ plain.status = "none"
    /\ plain' = labeldiff_lambdaweight(scores, labels, None, None)
    /\ UNCHANGED <<labels, scores, where, weights, result, single>>

\* the plain call is made and nothing else yet
CanCall ==
    plain.status # "none" /\ result.status = "none" /\ single.out.status = "none"

\* labeldiff_lambdaweight(s, labels, where=w, weights=wt)
Call(s, w, wt) ==
    /\ CanCall
    /\ scores' = s
    /\ where' = w
    /\ weights' = wt
    /\ result' = labeldiff_lambdaweight(s, labels, w, wt)
    /\ UNCHANGED <<labels, plain, single>>

\* labeldiff_lambdaweight on the list labels[b] alone
CallOnList(b) ==
    /\ CanCall
    /\ single' = [b |-> b,
                  out |-> labeldiff_lambdaweight(SliceList(scores, b),
                                                 SliceList(labels, b), None, None)]
    /\ UNCHANGED <<labels, scores, where, weights, plain, result>>

Next ==
    \/ CallPlain
    \/ CanCall /\ \E a \in ArgChoices(labels) : Call(a[1], a[2], a[3])
    \/ CanCall /\ \E b \in Indices(BatchShape(labels)) : CallOnList(b)

Spec == Init /\ [][Next]_vars

---------------------------------------------------------------------------
(* Properties. *)

\* a list and a matrix of finite values, written as in the source
Vec(xs) == [shape |-> <<Len(xs)>>,
            data |-> [idx \in Indices(<<Len(xs)>>) |-> Fin(xs[idx[1] + 1])]]
Mat(rows) == [shape |-> <<Len(rows), Len(rows[1])>>,
              data |-> [idx \in Indices(<<Len(rows), Len(rows[1])>>) |->
                          Fin(rows[idx[1] + 1][idx[2] + 1])]]

Items == 0..(ListSize(labels) - 1)
Batches == Indices(BatchShape(labels))
Label(b, i) == labels.data[Append(b, i)]
Entry(b, i, j) == result.value.data[b \o <<i, j>>]
Called == result.status # "none"
Mismatch(a) == ~BroadcastCompatible(a.shape, labels.shape)

\* C1: every entry [b, i, j] of the result is abs(labels[b, i] - labels[b, j]),
\* rows indexed by the first item and columns by the second.
C1_AbsoluteLabelDifference ==
    Called =>
        /\ result.status = "ok"
        /\ \A b \in Batches : \A i \in Items : \A j \in Items :
              Entry(b, i, j) = fabs(operator_sub(Label(b, i), Label(b, j)))

\* the labels of scenario 1 shifted by -1, and the matrix of scenario 1
C1_Witness ==
    /\ result.status = "ok"
    /\ labels = Vec(<<0, 1, -1>>)
    /\ result.value = Mat(<<<<0, 1, 1>>, <<1, 0, 2>>, <<1, 2, 0>>>>)

\* C2: the result does not depend on scores, where or weights: a call with any
\* of them equals, entry by entry, the call on the same labels without where and
\* weights.
C2_ArgumentsIgnored ==
    Called => result = plain

C2_Witness ==
    /\ result.status = "ok"
    /\ result = plain
    /\ where.given /\ where.shape = labels.shape
    /\ \E b \in Batches : \E i \in Items : \E j \in Items :
          /\ ~where.data[Append(b, j)]
          /\ Entry(b, i, j) # Fin(0)

\* C3: with where given, an entry between two valid items is the absolute label
\* difference and an entry with an invalid item is 0.
C3_InvalidItemsIgnored ==
    (result.status = "ok" /\ where.given /\ where.shape = labels.shape) =>
        \A b \in Batches : \A i \in Items : \A j \in Items :
            Entry(b, i, j) =
                IF where.data[Append(b, i)] /\ where.data[Append(b, j)]
                THEN fabs(operator_sub(Label(b, i), Label(b, j)))
                ELSE Fin(0)

\* C4 as claimed: scores not broadcast-compatible with labels make the call
\* fail with a shape error.
C4_ScoresMismatchFails ==
    (Called /\ Mismatch(scores)) => result.status = "error"

\* C4 amended: scores not broadcast-compatible with labels raise no error; the
\* call succeeds and returns what it returns for scores of labels' shape.
C4_ScoresMismatchAccepted ==
    (Called /\ Mismatch(scores)) => (result.status = "ok" /\ result = plain)

\* labels of list_size 2 with scores of list_size 3
C4_Witness ==
    /\ result.status = "ok"
    /\ Mismatch(scores)
    /\ ListSize(labels) = 2 /\ ListSize(scores) = 3
    /\ plain.status = "ok"

\* C5: the result is symmetric: entry [b, i, j] equals entry [b, j, i].
C5_Symmetric ==
    result.status = "ok" =>
        \A b \in Batches : \A i \in Items : \A j \in Items :
            Entry(b, i, j) = Entry(b, j, i)

C5_Witness ==
    /\ result.status = "ok"
    /\ \E b \in Batches : \E i \in Items : \E j \in Items :
          /\ Label(b, i).kind = "fin" /\ Label(b, j).kind = "fin"
          /\ Label(b, i).v < Label(b, j).v
          /\ Entry(b, i, j) = Entry(b, j, i)

\* C6 as claimed: every diagonal entry [b, i, i] is 0.
C6_DiagonalZero ==
    result.status = "ok" =>
        \A b \in Batches : \A i \in Items : Entry(b, i, i) = Fin(0)

\* C6 amended: the diagonal entry of an item with a finite label is 0; that of
\* an item whose label is NaN or infinite is NaN.
C6_DiagonalZeroOrNaN ==
    result.status = "ok" =>
        \A b \in Batches : \A i \in Items :
            Entry(b, i, i) = IF Label(b, i).kind = "fin" THEN Fin(0) ELSE NaN

\* scenario 2: a single item
C6_Witness ==
    /\ result.status = "ok"
    /\ labels = Vec(<<1>>)
    /\ result.value = Mat(<<<<0>>>>)

\* C7: for labels of shape (d1, ..., dk, list_size) the result has shape
\* (d1, ..., dk, list_size, list_size) and exactly one entry per batch index and
\* ordered pair of items.
C7_Shape ==
    Called =>
        /\ result.status = "ok"
        /\ result.value.shape = Append(labels.shape, ListSize(labels))
        /\ DOMAIN result.value.data =
              { b \o <<i, j>> : b \in Batches, i \in Items, j \in Items }

C7_Witness ==
    /\ result.status = "ok"
    /\ labels.shape = <<2, 2>>
    /\ result.value.shape = <<2, 2, 2>>
    /\ Cardinality(DOMAIN result.value.data) = 8

\* C8: the slice at batch index b of a batched call equals the call on the list
\* labels[b] alone.
C8_ListsIndependent ==
    single.out.status # "none" =>
        single.out = Ok(SliceMatrix(plain.value, single.b))

\* a batch of two lists as in scenario 3, labels [[0, 1], [1, 1]]: the batched
\* call gives [[[0, 1], [1, 0]], [[0, 0], [0, 0]]] and the second list alone
\* gives [[0, 0], [0, 0]]
C8_Witness ==
    /\ single.out.status = "ok"
    /\ labels.shape = <<2, 2>>
    /\ SliceList(labels, <<0>>) = Vec(<<0, 1>>)
    /\ SliceList(labels, <<1>>) = Vec(<<1, 1>>)
    /\ single.b = <<1>>
    /\ single.out.value = Mat(<<<<0, 0>>, <<0, 0>>>>)
    /\ SliceMatrix(plain.value, <<0>>) = Mat(<<<<0, 1>>, <<1, 0>>>>)

\* C9: a where or weights whose shape does not fit labels raises no error; the
\* call returns the matrix of the call without where and weights.
C9_OptionalMismatchAccepted ==
    (Called /\ ( (where.given /\ Mismatch(where))
                 \/ (weights.given /\ Mismatch(weights)) )) =>
        (result.status = "ok" /\ result.value = plain.value)

C9_Witness ==
    /\ result.status = "ok"
    /\ where.given /\ Mismatch(where)
    /\ weights.given /\ Mismatch(weights)
    /\ result.value = plain.value

NonNegative(x) == (x.kind = "fin" /\ x.v >= 0) \/ x = PosInf

\* C10 as claimed: with no NaN label, every entry is non-negative and is 0
\* exactly when the two labels are equal.
C10_ZeroIffEqual ==
    (result.status = "ok" /\ \A idx \in DOMAIN labels.data : labels.data[idx] # NaN) =>
        \A b \in Batches : \A i \in Items : \A j \in Items :
            /\ NonNegative(Entry(b, i, j))
            /\ Entry(b, i, j) = Fin(0) <=> Label(b, i) = Label(b, j)

\* C10 amended: with no NaN label, for every pair of items that do not carry
\* the same infinite label, the entry is non-negative and is 0 exactly when the
\* two labels are equal; two items with the same infinite label give NaN.
C10_ZeroIffEqualFinite ==
    (result.status = "ok" /\ \A idx \in DOMAIN labels.data : labels.data[idx] # NaN) =>
        \A b \in Batches : \A i \in Items : \A j \in Items :
            IF Label(b, i).kind = "inf" /\ Label(b, i) = Label(b, j)
            THEN Entry(b, i, j) = NaN
            ELSE /\ NonNegative(Entry(b, i, j))
                 /\ Entry(b, i, j) = Fin(0) <=> Label(b, i) = Label(b, j)

\* a negative label next to a different one and next to an equal one
C10_Witness ==
    /\ result.status = "ok"
    /\ labels = Vec(<<-1, 1, -1>>)
    /\ Entry(<<>>, 0, 1) = Fin(2)
    /\ Entry(<<>>, 0, 2) = Fin(0)

====
